---- MODULE Spec2Model ----
(***************************************************************************)
(* Model of scripts/process_data.py: the main() pipeline (dependency       *)
(* checks, frame extraction, downscaling, COLMAP, decode) and              *)
(* colmap_to_json (cameras.bin / images.bin -> transforms.json).           *)
(*                                                                         *)
(* Numbers: floating-point values are modelled by integers.  Quaternions   *)
(* are stored doubled (qvec2 = 2 * qvec) so that the unit quaternions      *)
(* (+-1 +-i +-j +-k)/2 have integer components; every rotation matrix the  *)
(* model produces is then an exact integer matrix.                         *)
(* Indices: Python index k is TLA+ index k + 1.                            *)
(***************************************************************************)
EXTENDS Integers, Sequences, FiniteSets, TLC

VARIABLES
    pc,               \* position of main() / colmap_to_json
    err,              \* the failure that ended the run, "none" while running
    ffmpegInstalled,  \* which("ffmpeg") is not None
    colmapInstalled,  \* which("colmap") is not None
    dataKind,         \* what the argument `data` is
    num_downscales,   \* argument num_downscales
    created,          \* directories this run has created (mkdir)
    imageDir,         \* files present in output_dir/images
    dsi,              \* index into downscale_factors of downscale_images
    cmds,             \* external commands run so far, with their exit status
    tf0,              \* transforms.json as it was before the run
    tf,               \* transforms.json now
    cameras,          \* result of read_cameras_binary
    images,           \* result of read_images_binary, in iteration order
    frames,           \* local `frames` of colmap_to_json
    out,              \* local `out` of colmap_to_json, as serialized chunks
    m1, m2,           \* two 4x4 matrices (correction study)
    r1, r2,           \* the matrices after `napplied` corrections
    napplied

pipeVars == <<pc, err, ffmpegInstalled, colmapInstalled, dataKind, num_downscales,
              created, imageDir, dsi, cmds, tf0, tf, cameras, images, frames, out>>
corrVars == <<m1, m2, r1, r2, napplied>>
vars == <<pipeVars, corrVars>>

----------------------------------------------------------------------------
(* Bounds *)

MaxDownscales == 1
MaxImages == 2
MaxCoef == 1

----------------------------------------------------------------------------
(* 4x4 matrices *)

Idx == 1..4

\* line 241: c2w[0:3, 1:3] *= -1
NegateYZColumns(M) ==
    [i \in Idx |-> [j \in Idx |->
        IF i \in 1..3 /\ j \in 2..3 THEN -M[i][j] ELSE M[i][j]]]

\* line 242: c2w = c2w[np.array([1, 0, 2, 3]), :]
RowOrder_Cyclic == <<2, 3, 1, 4>>

RowOrder == <<2, 1, 3, 4>>

PermuteRows(M) == [i \in Idx |-> M[RowOrder[i]]]

\* line 243: c2w[2, :] *= -1
NegateZRow(M) ==
    [i \in Idx |-> [j \in Idx |-> IF i = 3 THEN -M[i][j] ELSE M[i][j]]]

Correct_NoRowSwap(M) == NegateZRow(NegateYZColumns(M))

\* lines 240-243: the coordinate-convention correction
Correct(M) == NegateZRow(PermuteRows(NegateYZColumns(M)))

\* the indices of 1..4 other than k, ascending
Others(k) == SelectSeq(<<1, 2, 3, 4>>, LAMBDA x : x # k)

Det3(M, rs, cs) ==
      M[rs[1]][cs[1]] * (M[rs[2]][cs[2]] * M[rs[3]][cs[3]] - M[rs[2]][cs[3]] * M[rs[3]][cs[2]])
    - M[rs[1]][cs[2]] * (M[rs[2]][cs[1]] * M[rs[3]][cs[3]] - M[rs[2]][cs[3]] * M[rs[3]][cs[1]])
    + M[rs[1]][cs[3]] * (M[rs[2]][cs[1]] * M[rs[3]][cs[2]] - M[rs[2]][cs[2]] * M[rs[3]][cs[1]])

Sign(i, j) == IF (i + j) % 2 = 0 THEN 1 ELSE -1

Cofactor(M, i, j) == Sign(i, j) * Det3(M, Others(i), Others(j))

Det4(M) ==
    M[1][1] * Cofactor(M, 1, 1) + M[1][2] * Cofactor(M, 1, 2)
  + M[1][3] * Cofactor(M, 1, 3) + M[1][4] * Cofactor(M, 1, 4)

\* line 239: np.linalg.inv, for a matrix whose determinant divides its adjugate
Inv(M) == [i \in Idx |-> [j \in Idx |-> Cofactor(M, j, i) \div Det4(M)]]

\* colmap_utils.qvec2rotmat on a doubled quaternion q2 = 2 * [w, x, y, z]
qvec2rotmat(q2) ==
    LET w == q2[1]
        x == q2[2]
        y == q2[3]
        z == q2[4]
    IN << << (2 - y * y - z * z) \div 2, (x * y - w * z) \div 2, (z * x + w * y) \div 2 >>,
          << (x * y + w * z) \div 2, (2 - x * x - z * z) \div 2, (y * z - w * x) \div 2 >>,
          << (z * x - w * y) \div 2, (y * z + w * x) \div 2, (2 - x * x - y * y) \div 2 >> >>

\* lines 236-238: w2c = [rotation | translation ; 0 0 0 1]
W2C(rotation, tvec) ==
    [i \in Idx |-> [j \in Idx |->
        IF i = 4 THEN (IF j = 4 THEN 1 ELSE 0)
        ELSE IF j = 4 THEN tvec[i]
        ELSE rotation[i][j]]]

----------------------------------------------------------------------------
(* Inputs of colmap_to_json: what the binary readers can return *)

\* the camera ids a camera file or an image record can carry
CamIds == 1..2

\* camera records: two OPENCV-style records (8 params) and a PINHOLE-style one (4)
CamRecs ==
    { [params |-> <<11, 12, 13, 14, 15, 16, 17, 18>>, width |-> 1920, height |-> 1080],
      [params |-> <<21, 22, 23, 24, 25, 26, 27, 28>>, width |-> 640, height |-> 480],
      [params |-> <<31, 32, 33, 34>>, width |-> 800, height |-> 600] }

\* the dict read_cameras_binary returns: camera id -> record
CameraMappings == UNION { [ids -> CamRecs] : ids \in SUBSET CamIds }

\* doubled quaternions [w, x, y, z]: identity, (1+i+j+k)/2, i
QIdentity == <<2, 0, 0, 0>>
QVecs == { <<1, 1, 1, 1>>, <<0, 2, 0, 0>> }

TZero == <<0, 0, 0>>
TVecs == { <<1, -2, 3>> }

Names == { "img001.jpg", "img002.jpg" }

ImageRecs ==
    { [qvec |-> QIdentity, tvec |-> TZero, camera_id |-> c, name |-> n] :
          c \in CamIds, n \in Names }
    \cup
    { [qvec |-> q, tvec |-> t, camera_id |-> 1, name |-> "img003.jpg"] :
          q \in QVecs \cup { QIdentity }, t \in TVecs }

\* the dict read_images_binary returns, as its records in iteration order
ImageMappings == UNION { [1..n -> ImageRecs] : n \in 0..MaxImages }

NoCameras == [x \in {} |-> x]

----------------------------------------------------------------------------
(* colmap_to_json: the computation of lines 231-265 *)

\* lines 235-250: one iteration of the loop
Frame(im_data) ==
    LET rotation == qvec2rotmat(im_data.qvec)
        w2c == W2C(rotation, im_data.tvec)
        c2w == Inv(w2c)
    IN [file_path |-> "./images/" \o im_data.name,
        transform_matrix |-> Correct(c2w)]

\* Frame, tabulated over the records the readers can return
FrameOf == [im_data \in ImageRecs |-> Frame(im_data)]

BuildFrames_Prepends(imgs) == [i \in 1..Len(imgs) |-> FrameOf[imgs[Len(imgs) + 1 - i]]]

\* lines 233-251: frames, one appended per item of images.items()
BuildFrames(imgs) == [i \in 1..Len(imgs) |-> FrameOf[imgs[i]]]

Intrinsics_InKeyOrder(cams) ==
    LET camera_params == cams[1].params
    IN [fl_x |-> camera_params[1],
        fl_y |-> camera_params[2],
        k1 |-> camera_params[3],
        k2 |-> camera_params[4],
        p1 |-> camera_params[5],
        p2 |-> camera_params[6],
        cx |-> camera_params[7],
        cy |-> camera_params[8],
        w |-> cams[1].width,
        h |-> cams[1].height]

\* lines 253-263: the intrinsics of `out`, from cameras[1]
Intrinsics(cams) ==
    LET camera_params == cams[1].params
    IN [fl_x |-> camera_params[1],
        fl_y |-> camera_params[2],
        k1 |-> camera_params[5],
        k2 |-> camera_params[6],
        p1 |-> camera_params[7],
        p2 |-> camera_params[8],
        cx |-> camera_params[3],
        cy |-> camera_params[4],
        w |-> cams[1].width,
        h |-> cams[1].height]

NoIntrinsics ==
    [fl_x |-> 0, fl_y |-> 0, k1 |-> 0, k2 |-> 0, p1 |-> 0, p2 |-> 0,
     cx |-> 0, cy |-> 0, w |-> 0, h |-> 0]

NoFrame == [file_path |-> "", transform_matrix |-> <<>>]

\* line 268: what json.dump writes, in the order it writes it: the scalar
\* fields, each frame, the closing brackets
Serialize(intr, frs) ==
    <<[kind |-> "intrinsics", intr |-> intr, frame |-> NoFrame]>>
    \o [i \in 1..Len(frs) |-> [kind |-> "frame", intr |-> NoIntrinsics, frame |-> frs[i]]]
    \o <<[kind |-> "end", intr |-> NoIntrinsics, frame |-> NoFrame]>>

\* a transforms.json left by an earlier run on other data
OldManifest ==
    Serialize([NoIntrinsics EXCEPT !.fl_x = 99, !.w = 320, !.h = 240], <<>>)

NoFile == [exists |-> FALSE, content |-> <<>>]

IsPrefix(s, t) == Len(s) <= Len(t) /\ SubSeq(t, 1, Len(s)) = s

----------------------------------------------------------------------------
(* main(): inputs *)

\* `data` is a video file, a directory of images somewhere else, or the
\* directory output_dir/images itself
DataKinds == { "file", "dir", "dir_is_image_dir" }

\* the frames of the video, or the images of the directory
InputImages == { "frame_00001.png", "frame_00002.png" }

ExitStatuses == { 0, 1 }

\* line 129: downscale_factors[i - 1]
DownscaleFactor(i) == 2 ^ i

DownscaleDir(i) == "images_" \o ToString(DownscaleFactor(i))

Init ==
    /\ pc = "check_ffmpeg"
    /\ err = "none"
    /\ ffmpegInstalled \in BOOLEAN
    /\ colmapInstalled \in BOOLEAN
    /\ dataKind \in DataKinds
    /\ num_downscales \in 0..MaxDownscales
    /\ created = {}
    /\ imageDir = IF dataKind = "dir_is_image_dir" THEN InputImages ELSE {}
    /\ dsi = 1
    /\ cmds = <<>>
    /\ tf0 \in { NoFile, [exists |-> TRUE, content |-> OldManifest] }
    /\ tf = tf0
    /\ cameras = NoCameras
    /\ images = <<>>
    /\ frames = <<>>
    /\ out = <<>>
    /\ m1 = <<>> /\ m2 = <<>> /\ r1 = <<>> /\ r2 = <<>> /\ napplied = 0

decodeVars == <<tf, cameras, images, frames, out>>
inputVars == <<ffmpegInstalled, colmapInstalled, dataKind, num_downscales, tf0>>

run_command_IgnoresStatus(cmd, next) ==
    \E status \in ExitStatuses :
        /\ cmds' = Append(cmds, [cmd |-> cmd, status |-> status])
        /\ pc' = next /\ err' = err

\* lines 71-86: subprocess.run(cmd, shell=True, check=True): a non-zero exit
\* status raises CalledProcessError, which nothing catches
run_command(cmd, next) ==
    \E status \in ExitStatuses :
        /\ cmds' = Append(cmds, [cmd |-> cmd, status |-> status])
        /\ IF status = 0
           THEN pc' = next /\ err' = err
           ELSE pc' = "failed" /\ err' = "CalledProcessError"

\* lines 317, 325: where main goes once the images are in place
AfterConvert == IF num_downscales > 0 THEN "downscale" ELSE "colmap_version"

check_ffmpeg_installed_Continues ==
    /\ pc = "check_ffmpeg"
    /\ pc' = "check_colmap"
    /\ UNCHANGED <<err, created, imageDir, dsi, cmds, decodeVars, inputVars, corrVars>>

\* lines 33-40, called at line 302
check_ffmpeg_installed ==
    /\ pc = "check_ffmpeg"
    /\ IF ffmpegInstalled
       THEN pc' = "check_colmap" /\ err' = err
       ELSE pc' = "exit_1" /\ err' = "MissingDependency"
    /\ UNCHANGED <<created, imageDir, dsi, cmds, decodeVars, inputVars, corrVars>>

\* lines 43-49, called at line 303
check_colmap_installed ==
    /\ pc = "check_colmap"
    /\ IF colmapInstalled
       THEN pc' = "mkdirs" /\ err' = err
       ELSE pc' = "exit_1" /\ err' = "MissingDependency"
    /\ UNCHANGED <<created, imageDir, dsi, cmds, decodeVars, inputVars, corrVars>>

\* lines 305-309: the output directories, then the branch on data.is_file()
MakeOutputDirs ==
    /\ pc = "mkdirs"
    /\ created' = created \cup { "output_dir", "images" }
    /\ pc' = IF dataKind = "file" THEN "ffprobe" ELSE AfterConvert
    /\ UNCHANGED <<err, imageDir, dsi, cmds, decodeVars, inputVars, corrVars>>

\* lines 98-102: convert_video_to_images counts the frames of the video
RunFfprobe ==
    /\ pc = "ffprobe"
    /\ run_command("ffprobe", "ffmpeg_extract")
    /\ UNCHANGED <<created, imageDir, dsi, decodeVars, inputVars, corrVars>>

\* lines 105-118: ffmpeg writes the frames into image_dir
RunFfmpegExtract ==
    /\ pc = "ffmpeg_extract"
    /\ run_command("ffmpeg_extract", AfterConvert)
    /\ imageDir' = IF pc' = "failed" THEN imageDir ELSE imageDir \cup InputImages
    /\ UNCHANGED <<created, dsi, decodeVars, inputVars, corrVars>>

\* lines 130-141: one iteration of the loop of downscale_images
DownscaleStep ==
    /\ pc = "downscale"
    /\ dsi <= num_downscales
    /\ created' = created \cup { DownscaleDir(dsi) }
    /\ run_command("ffmpeg_scale_" \o ToString(DownscaleFactor(dsi)),
                   IF dsi = num_downscales THEN "colmap_version" ELSE "downscale")
    /\ dsi' = dsi + 1
    /\ UNCHANGED <<imageDir, decodeVars, inputVars, corrVars>>

\* lines 325-329, 161, 62: colmap_dir is created, run_colmap asks for the version
GetColmapVersion ==
    /\ pc = "colmap_version"
    /\ created' = created \cup { "colmap" }
    /\ run_command("colmap", "feature_extractor")
    /\ UNCHANGED <<imageDir, dsi, decodeVars, inputVars, corrVars>>

\* lines 164-178
FeatureExtractor ==
    /\ pc = "feature_extractor"
    /\ run_command("colmap feature_extractor", "feature_matcher")
    /\ UNCHANGED <<created, imageDir, dsi, decodeVars, inputVars, corrVars>>

\* lines 181-192
FeatureMatcher ==
    /\ pc = "feature_matcher"
    /\ run_command("colmap exhaustive_matcher", "mapper")
    /\ UNCHANGED <<created, imageDir, dsi, decodeVars, inputVars, corrVars>>

\* lines 195-215
Mapper ==
    /\ pc = "mapper"
    /\ created' = created \cup { "colmap/sparse" }
    /\ run_command("colmap mapper", "read_cameras")
    /\ UNCHANGED <<imageDir, dsi, decodeVars, inputVars, corrVars>>

----------------------------------------------------------------------------
(* colmap_to_json, called at line 332 *)

\* line 227: read_cameras_binary returns a mapping or raises
ReadCameras ==
    /\ pc = "read_cameras"
    /\ \/ /\ pc' = "failed" /\ err' = "CamerasReadError"
          /\ cameras' = cameras
       \/ /\ pc' = "read_images" /\ err' = err
          /\ cameras' \in CameraMappings
    /\ UNCHANGED <<created, imageDir, dsi, cmds, tf, images, frames, out, inputVars, corrVars>>

ReadImages_OpensOutputFirst ==
    /\ pc = "read_images"
    /\ tf' = [exists |-> TRUE, content |-> <<>>]
    /\ \/ /\ pc' = "failed" /\ err' = "ImagesReadError"
          /\ images' = images
       \/ /\ pc' = "convert" /\ err' = err
          /\ images' \in ImageMappings
    /\ UNCHANGED <<created, imageDir, dsi, cmds, cameras, frames, out, inputVars, corrVars>>

\* line 228: read_images_binary returns a mapping or raises
ReadImages ==
    /\ pc = "read_images"
    /\ \/ /\ pc' = "failed" /\ err' = "ImagesReadError"
          /\ images' = images
       \/ /\ pc' = "convert" /\ err' = err
          /\ images' \in ImageMappings
    /\ UNCHANGED <<created, imageDir, dsi, cmds, tf, cameras, frames, out, inputVars, corrVars>>

ConvertRecords_ChecksCameraIds ==
    /\ pc = "convert"
    /\ IF 1 \notin DOMAIN cameras
          \/ \E i \in 1..Len(images) : images[i].camera_id \notin DOMAIN cameras
       THEN /\ pc' = "failed" /\ err' = "KeyError"
            /\ UNCHANGED <<frames, out>>
       ELSE /\ frames' = BuildFrames(images)
            /\ IF Len(cameras[1].params) < 8
               THEN pc' = "failed" /\ err' = "IndexError" /\ out' = out
               ELSE /\ pc' = "open" /\ err' = err
                    /\ out' = Serialize(Intrinsics(cameras), frames')
    /\ UNCHANGED <<created, imageDir, dsi, cmds, tf, cameras, images, inputVars, corrVars>>

\* lines 231-265: cameras[1] (KeyError without camera 1), the loop over the
\* image records, then `out` (IndexError when params has fewer than 8 entries)
ConvertRecords ==
    /\ pc = "convert"
    /\ IF 1 \notin DOMAIN cameras
       THEN /\ pc' = "failed" /\ err' = "KeyError"
            /\ UNCHANGED <<frames, out>>
       ELSE /\ frames' = BuildFrames(images)
            /\ IF Len(cameras[1].params) < 8
               THEN pc' = "failed" /\ err' = "IndexError" /\ out' = out
               ELSE /\ pc' = "open" /\ err' = err
                    /\ out' = Serialize(Intrinsics(cameras), frames')
    /\ UNCHANGED <<created, imageDir, dsi, cmds, tf, cameras, images, inputVars, corrVars>>

OpenManifest_Appends ==
    /\ pc = "open"
    /\ \/ /\ pc' = "failed" /\ err' = "OSError"
          /\ tf' = tf
       \/ /\ pc' = "write" /\ err' = err
          /\ tf' = [exists |-> TRUE, content |-> tf.content]
    /\ UNCHANGED <<created, imageDir, dsi, cmds, cameras, images, frames, out, inputVars, corrVars>>

\* line 267: open(output_dir / "transforms.json", "w") creates or truncates
OpenManifest ==
    /\ pc = "open"
    /\ \/ /\ pc' = "failed" /\ err' = "OSError"
          /\ tf' = tf
       \/ /\ pc' = "write" /\ err' = err
          /\ tf' = [exists |-> TRUE, content |-> <<>>]
    /\ UNCHANGED <<created, imageDir, dsi, cmds, cameras, images, frames, out, inputVars, corrVars>>

\* line 268: json.dump writes the next piece of `out`, or the write fails; the
\* `with` block closes the file after the last piece and colmap_to_json returns
WriteChunk ==
    /\ pc = "write"
    /\ Len(tf.content) < Len(out)
    /\ \/ /\ pc' = "failed" /\ err' = "OSError"
          /\ tf' = tf
       \/ /\ tf' = [tf EXCEPT !.content = Append(@, out[Len(@) + 1])]
          /\ pc' = IF Len(tf'.content) = Len(out) THEN "done" ELSE "write"
          /\ err' = err
    /\ UNCHANGED <<created, imageDir, dsi, cmds, cameras, images, frames, out, inputVars, corrVars>>

Next ==
    \/ check_ffmpeg_installed
    \/ check_colmap_installed
    \/ MakeOutputDirs
    \/ RunFfprobe
    \/ RunFfmpegExtract
    \/ DownscaleStep
    \/ GetColmapVersion
    \/ FeatureExtractor
    \/ FeatureMatcher
    \/ Mapper
    \/ ReadCameras
    \/ ReadImages
    \/ ConvertRecords
    \/ OpenManifest
    \/ WriteChunk

Spec == Init /\ [][Next]_vars

----------------------------------------------------------------------------
(* The coordinate-convention correction as a function of any 4x4 matrix *)

MaxApply == 2

\* matrices whose 16 entries are pairwise distinct (scaled), with a shifted
\* diagonal, and the matrices with a single non-zero entry
MatSet ==
    { [i \in Idx |-> [j \in Idx |-> a * (4 * (i - 1) + j) + (IF i = j THEN b ELSE 0)]] :
          a \in (-MaxCoef)..MaxCoef, b \in (-MaxCoef)..MaxCoef }
    \cup
    { [i \in Idx |-> [j \in Idx |-> IF i = p /\ j = q THEN v ELSE 0]] :
          p \in Idx, q \in Idx, v \in 1..MaxCoef }

InitCorr ==
    /\ pc = "correction"
    /\ err = "none"
    /\ ffmpegInstalled = TRUE /\ colmapInstalled = TRUE
    /\ dataKind = "file" /\ num_downscales = 0
    /\ created = {} /\ imageDir = {} /\ dsi = 1 /\ cmds = <<>>
    /\ tf0 = NoFile /\ tf = NoFile
    /\ cameras = NoCameras /\ images = <<>> /\ frames = <<>> /\ out = <<>>
    /\ m1 \in MatSet
    /\ m2 \in MatSet
    /\ r1 = m1
    /\ r2 = m2
    /\ napplied = 0

\* lines 241-243 applied once more to both matrices
ApplyCorrection ==
    /\ pc = "correction"
    /\ napplied < MaxApply
    /\ r1' = Correct(r1)
    /\ r2' = Correct(r2)
    /\ napplied' = napplied + 1
    /\ UNCHANGED <<pipeVars, m1, m2>>

NextCorr == ApplyCorrection

SpecCorr == InitCorr /\ [][NextCorr]_vars

----------------------------------------------------------------------------
(* Properties *)

\* colmap_to_json has both mappings and is past the conversion of lines 231-265
Converted ==
    \/ pc \in { "open", "write", "done" }
    \/ pc = "failed" /\ err \in { "KeyError", "IndexError", "OSError" }

\* some image record carries a camera id that the camera mapping lacks
DanglingCameraId ==
    \E i \in 1..Len(images) : images[i].camera_id \notin DOMAIN cameras

\* the frames[] entries of a complete transforms.json
FileFrames == [i \in 1..(Len(tf.content) - 2) |-> tf.content[i + 1].frame]

Identity3 == << <<1, 0, 0>>, <<0, 1, 0>>, <<0, 0, 1>> >>

\* C1 as stated: an image record whose camera id is not in the camera mapping
\* makes colmap_to_json fail (the claim names the error ReferenceError; the
\* statement here is already false for any error) and write no manifest.
C1_DanglingCameraIdFails ==
    (Converted /\ DanglingCameraId) => (pc = "failed" /\ tf = tf0)

\* C1 amended: colmap_to_json never looks at the camera ids of image records.
\* It fails at the conversion with KeyError (never ReferenceError), leaving
\* transforms.json untouched, exactly when camera id 1 is missing from the
\* camera mapping; with camera 1 present the conversion goes on to the
\* manifest whatever camera ids the image records carry.
C1_OnlyCameraOneIsLookedUp ==
    /\ err # "ReferenceError"
    /\ Converted => ((1 \notin DOMAIN cameras) <=> (pc = "failed" /\ err = "KeyError"))
    /\ err = "KeyError" => tf = tf0
    /\ (Converted /\ 1 \in DOMAIN cameras /\ err # "IndexError") =>
           (pc \in { "open", "write", "done" } \/ err = "OSError")

\* C1 witness: a manifest was written although an image record refers to
\* camera 2 and only camera 1 exists
C1_Witness ==
    /\ pc = "done"
    /\ DOMAIN cameras = { 1 }
    /\ \E i \in 1..Len(images) : images[i].camera_id = 2

\* C2: whenever the manifest's scalar fields are in transforms.json, they are
\* those of camera id 1: fl_x, fl_y, cx, cy, k1, k2, p1, p2 = params[0..7] and
\* w, h = width, height of that record, whatever other cameras there are.
C2_IntrinsicsFromCameraOne ==
    (tf # tf0 /\ Len(tf.content) >= 1) =>
        /\ 1 \in DOMAIN cameras
        /\ tf.content[1].kind = "intrinsics"
        /\ LET man == tf.content[1].intr
               cam == cameras[1]
           IN /\ man.fl_x = cam.params[1]
              /\ man.fl_y = cam.params[2]
              /\ man.cx = cam.params[3]
              /\ man.cy = cam.params[4]
              /\ man.k1 = cam.params[5]
              /\ man.k2 = cam.params[6]
              /\ man.p1 = cam.params[7]
              /\ man.p2 = cam.params[8]
              /\ man.w = cam.width
              /\ man.h = cam.height

\* C2 witness: a complete manifest written from a mapping with two different
\* camera records
C2_Witness ==
    /\ pc = "done"
    /\ DOMAIN cameras = { 1, 2 }
    /\ cameras[1] # cameras[2]

\* C3: the frames[] of the written manifest has one entry per image record,
\* in the mapping's iteration order, the i-th with file_path "./images/" +
\* the i-th record's name.
C3_OneFramePerImageInOrder ==
    /\ pc \in { "open", "write", "done" } => Len(frames) = Len(images)
    /\ pc = "done" =>
        /\ Len(FileFrames) = Len(images)
        /\ \A i \in 1..Len(images) :
               /\ tf.content[i + 1].kind = "frame"
               /\ FileFrames[i].file_path = "./images/" \o images[i].name

\* C3 witness: a manifest written from records img001.jpg, img002.jpg in
\* that order
C3_Witness ==
    /\ pc = "done"
    /\ Len(images) = 2
    /\ images[1].name = "img001.jpg"
    /\ images[2].name = "img002.jpg"

\* C4: every frame's transform_matrix has bottom row [0,0,0,1], and for a
\* record with identity rotation and zero translation it is
\* [[0,-1,0,0],[1,0,0,0],[0,0,1,0],[0,0,0,1]].
C4_IdentityPoseMatrix ==
    /\ \A i \in 1..Len(frames) :
           /\ frames[i].transform_matrix[4] = <<0, 0, 0, 1>>
           /\ (qvec2rotmat(images[i].qvec) = Identity3 /\ images[i].tvec = TZero) =>
                  frames[i].transform_matrix =
                      << <<0, -1, 0, 0>>, <<1, 0, 0, 0>>, <<0, 0, 1, 0>>, <<0, 0, 0, 1>> >>
    /\ pc = "done" => FileFrames = frames

\* C4 witness: a manifest with an identity pose and a rotated, translated one
C4_Witness ==
    /\ pc = "done"
    /\ \E i \in 1..Len(images) :
           images[i].qvec = QIdentity /\ images[i].tvec = TZero
    /\ \E i \in 1..Len(images) :
           images[i].qvec # QIdentity /\ images[i].tvec # TZero

\* C5: the correction applied twice gives back the matrix itself (the fixed
\* permutation relating the two is the identity, for every matrix), and two
\* matrices with the same correction are the same matrix.
C5_CorrectionTwiceIsFixed ==
    /\ napplied % 2 = 0 => (r1 = m1 /\ r2 = m2)
    /\ (napplied = 1 /\ r1 = r2) => m1 = m2

\* C5 witness: the correction applied twice to two different matrices that
\* it changes
C5_Witness ==
    /\ napplied = 2
    /\ m1 # m2
    /\ Correct(m1) # m1
    /\ Correct(m2) # m2

\* C6 as stated: transforms.json is always either as it was before the run
\* or the complete manifest.
C6_AtomicWrite ==
    tf = tf0 \/ (out # <<>> /\ tf = [exists |-> TRUE, content |-> out])

\* C6 amended: transforms.json is written in place.  It is as it was before
\* the run until it is opened; opening truncates it; while it is written, and
\* after a failed write, it holds a prefix (possibly empty) of the manifest;
\* it holds the complete manifest when colmap_to_json returns.
C6_WrittenInPlace ==
    /\ pc \notin { "write", "done", "failed" } => tf = tf0
    /\ (pc = "failed" /\ err # "OSError") => tf = tf0
    /\ tf # tf0 => (tf.exists /\ IsPrefix(tf.content, out))
    /\ pc = "write" => (tf.exists /\ IsPrefix(tf.content, out) /\ Len(tf.content) < Len(out))
    /\ pc = "done" => tf = [exists |-> TRUE, content |-> out]

\* C6 witness: a write failed part-way and left a truncated transforms.json
\* in place of the earlier one
C6_Witness ==
    /\ pc = "failed"
    /\ err = "OSError"
    /\ tf0.exists
    /\ tf # tf0
    /\ Len(tf.content) > 0
    /\ Len(tf.content) < Len(out)

\* C7: a failure to read the camera file or the image file, or to convert
\* the records, ends the run with transforms.json as it was; the file is
\* touched only once every record is decoded and every frame is built.
C7_NoWriteBeforeFullDecode ==
    /\ err \in { "CamerasReadError", "ImagesReadError", "KeyError", "IndexError" } =>
           (pc = "failed" /\ tf = tf0)
    /\ tf # tf0 =>
           /\ 1 \in DOMAIN cameras
           /\ Len(frames) = Len(images)
           /\ out = Serialize(Intrinsics(cameras), frames)

\* C7 witness: reading the image file failed and the earlier transforms.json
\* is still there
C7_Witness ==
    /\ pc = "failed"
    /\ err = "ImagesReadError"
    /\ tf0.exists
    /\ tf = tf0

\* C8: with ffmpeg or colmap missing, main exits with status 1 having created
\* no directory, run no command and left transforms.json alone.
C8_MissingToolExitsFirst ==
    (~ffmpegInstalled \/ ~colmapInstalled) =>
        /\ pc \in { "check_ffmpeg", "check_colmap", "exit_1" }
        /\ (pc = "check_colmap" => ffmpegInstalled)
        /\ (pc = "exit_1" => err = "MissingDependency")
        /\ created = {}
        /\ cmds = <<>>
        /\ tf = tf0

\* C8 witness: ffmpeg is there, colmap is not, and main has exited
C8_Witness ==
    /\ pc = "exit_1"
    /\ ffmpegInstalled
    /\ ~colmapInstalled

\* the commands of a run that nothing stops, in order
ExpectedCommands ==
    (IF dataKind = "file" THEN <<"ffprobe", "ffmpeg_extract">> ELSE <<>>)
    \o [i \in 1..num_downscales |-> "ffmpeg_scale_" \o ToString(2 ^ i)]
    \o <<"colmap", "colmap feature_extractor", "colmap exhaustive_matcher", "colmap mapper">>

\* C9: the commands run in the order extraction (file input only),
\* downscaling (num_downscales > 0 only), feature extraction, matching,
\* mapper, each after the previous one exited with 0; a non-zero exit ends
\* the run at once, nothing runs after it, none is run again, and
\* transforms.json is not written; decoding starts after all of them.
C9_LinearPipeline ==
    /\ Len(cmds) <= Len(ExpectedCommands)
    /\ \A i \in 1..Len(cmds) : cmds[i].cmd = ExpectedCommands[i]
    /\ \A i \in 1..(Len(cmds) - 1) : cmds[i].status = 0
    /\ (cmds # <<>> /\ cmds[Len(cmds)].status # 0) =>
           (pc = "failed" /\ err = "CalledProcessError" /\ tf = tf0)
    /\ (pc \in { "read_cameras", "read_images", "convert", "open", "write", "done" }
            \/ tf # tf0) =>
           /\ Len(cmds) = Len(ExpectedCommands)
           /\ \A i \in 1..Len(cmds) : cmds[i].status = 0

\* C9 witness: a video with downscaling, stopped by the failure of a COLMAP
\* command
C9_Witness ==
    /\ pc = "failed"
    /\ dataKind = "file"
    /\ num_downscales > 0
    /\ Len(cmds) > 3 + num_downscales
    /\ cmds[Len(cmds)].status = 1

\* C10 as stated: when the downscaler or the structure-from-motion tool is
\* invoked on output_dir/images, that directory holds the input's images,
\* for a video and for a directory of images alike.
C10_ImageDirHoldsInput ==
    (\E i \in 1..Len(cmds) : cmds[i].cmd \notin { "ffprobe", "ffmpeg_extract", "colmap" }) =>
        InputImages \subseteq imageDir

====
